---------------------------- MODULE Spec2Model ----------------------------
(***************************************************************************)
(* A model of turing-lang (src/src/turing.rs, src/src/main.rs): the        *)
(* definition-language parser, the execution engine and the combinators    *)
(* chain, branch and loop_while.                                           *)
(*                                                                         *)
(* Text is modelled at character level: a Rust String / &str is a sequence *)
(* of one-character strings, so that substring replacement, tokenisation   *)
(* and parsing are computed the way the code computes them.                *)
(***************************************************************************)
EXTENDS Integers, Sequences, FiniteSets, TLC

(***************************************************************************)
(* Text primitives (the std::str methods the code calls).                  *)
(***************************************************************************)

\* char::is_whitespace, restricted to the characters the definitions use.
WS == {" ", "\t", "\n"}

Last(v) == v[Len(v)]
Front(v) == SubSeq(v, 1, Len(v) - 1)

\* str::starts_with / str::ends_with
starts_with(t, p) == Len(p) <= Len(t) /\ SubSeq(t, 1, Len(p)) = p
ends_with(t, p) == Len(p) <= Len(t) /\ SubSeq(t, Len(t) - Len(p) + 1, Len(t)) = p

\* [String]::join
RECURSIVE join(_, _)
join(v, sep) ==
    IF Len(v) = 0 THEN <<>>
    ELSE IF Len(v) = 1 THEN v[1]
    ELSE v[1] \o sep \o join(Tail(v), sep)

\* str::replace: every non-overlapping match of `from`, scanned left to
\* right, becomes `to`; the text between matches is copied.
RECURSIVE replace(_, _, _)
replace(t, from, to) ==
    IF Len(from) = 0
    THEN to \o (IF Len(t) = 0 THEN <<>> ELSE <<Head(t)>> \o replace(Tail(t), from, to))
    ELSE IF Len(t) = 0 THEN <<>>
    ELSE IF starts_with(t, from)
         THEN to \o replace(SubSeq(t, Len(from) + 1, Len(t)), from, to)
         ELSE <<Head(t)>> \o replace(Tail(t), from, to)

\* Index of the first occurrence of character c in t, 0 when there is none.
find(t, c) ==
    IF \E i \in 1..Len(t) : t[i] = c
    THEN CHOOSE i \in 1..Len(t) : t[i] = c /\ \A j \in 1..(i - 1) : t[j] # c
    ELSE 0

\* str::split(c): the pieces between occurrences of c, empty pieces kept.
RECURSIVE split(_, _)
split(t, c) ==
    LET i == find(t, c)
    IN  IF i = 0 THEN <<t>>
        ELSE <<SubSeq(t, 1, i - 1)>> \o split(SubSeq(t, i + 1, Len(t)), c)

\* str::split_once(c): None, or the text before and after the first c.
split_once(t, c) ==
    LET i == find(t, c)
    IN  IF i = 0 THEN [some |-> FALSE, s1 |-> t, s2 |-> <<>>]
        ELSE [some |-> TRUE, s1 |-> SubSeq(t, 1, i - 1), s2 |-> SubSeq(t, i + 1, Len(t))]

\* str::lines: split at newlines, a final empty line is not a line.
lines(t) ==
    LET p == split(t, "\n")
    IN  IF Last(p) = <<>> THEN Front(p) ELSE p

\* str::split_whitespace: the maximal runs of non-whitespace characters.
RECURSIVE split_whitespace(_)
split_whitespace(t) ==
    IF Len(t) = 0 THEN <<>>
    ELSE IF Head(t) \in WS THEN split_whitespace(Tail(t))
    ELSE LET n == CHOOSE k \in 1..Len(t) :
                     /\ \A j \in 1..k : t[j] \notin WS
                     /\ (k = Len(t) \/ t[k + 1] \in WS)
         IN  <<SubSeq(t, 1, n)>> \o split_whitespace(SubSeq(t, n + 1, Len(t)))

\* str::trim_end
RECURSIVE trim_end(_)
trim_end(t) ==
    IF Len(t) > 0 /\ Last(t) \in WS THEN trim_end(Front(t)) ELSE t

\* str::trim_end_matches(suffix): the suffix is removed as often as it ends
\* the text.
RECURSIVE trim_end_matches(_, _)
trim_end_matches(t, suf) ==
    IF Len(suf) > 0 /\ ends_with(t, suf)
    THEN trim_end_matches(SubSeq(t, 1, Len(t) - Len(suf)), suf)
    ELSE t

\* Vec::contains
contains(v, x) == \E i \in 1..Len(v) : v[i] = x


\* The concatenation of a sequence of sequences.
RECURSIVE Flatten(_)
Flatten(vv) == IF Len(vv) = 0 THEN <<>> ELSE Head(vv) \o Flatten(Tail(vv))

\* first..last + 1 as a sequence (empty when first > last).
Range(first, last) == [i \in 1..(last - first + 1) |-> first + i - 1]

\* str::to_ascii_lowercase
UpperCase == <<"A","B","C","D","E","F","G","H","I","J","K","L","M",
               "N","O","P","Q","R","S","T","U","V","W","X","Y","Z">>
LowerCase == <<"a","b","c","d","e","f","g","h","i","j","k","l","m",
               "n","o","p","q","r","s","t","u","v","w","x","y","z">>
to_ascii_lowercase(t) ==
    [i \in 1..Len(t) |->
        IF \E k \in 1..Len(UpperCase) : UpperCase[k] = t[i]
        THEN LowerCase[CHOOSE k \in 1..Len(UpperCase) : UpperCase[k] = t[i]]
        ELSE t[i]]

(***************************************************************************)
(* The words of the definition language and of the combinators.            *)
(***************************************************************************)
WILDCARD == <<"*">>
NO_STATE_CHANGE == <<".">>
NO_WRITE == <<".">>
BLANK == <<"_">>
BLANK_ID == 0

SP == <<" ">>
NL == <<"\n">>
SEP == <<":", ":">>
TUR == <<".", "t", "u", "r">>
K_states == <<"s","t","a","t","e","s">>
K_syms == <<"s","y","m","s">>
K_initstate == <<"i","n","i","t","s","t","a","t","e">>
K_finalstates == <<"f","i","n","a","l","s","t","a","t","e","s">>
K_table == <<"t","a","b","l","e">>
HALT == <<"H","A","L","T">>
BRANCH == <<"B","R","A","N","C","H">>
CHECK == <<"C","H","E","C","K">>

\* A panic (panic!, a failed expect or unwrap): the operation aborts and
\* yields no value.
Panic == [ok |-> FALSE]

\* HashMap::insert: a later insert of the same key replaces the value.
put(m, k, v) == [x \in (DOMAIN m) \cup {k} |-> IF x = k THEN v ELSE m[x]]

\* The file's machine name: the last path component without ".tur".
machine_name_of(path) == trim_end_matches(Last(split(path, "/")), TUR)

(***************************************************************************)
(* extract_tokens: the prologue's declarations and the comment-stripped    *)
(* table text of one definition.                                           *)
(***************************************************************************)
strip_comment(line) == split_once(line, "#").s1

\* The first token of each tokenised line (empty for a line without tokens).
first_token(toks) == IF Len(toks) = 0 THEN <<>> ELSE toks[1]

\* The two loops over the lines: ls are the file's lines, tk their tokens
\* (comment stripped), t the index of the first `table` line (Len(ls) + 1
\* when there is none).
extract_lines(ls, tk, t) ==
    LET args(kw) == Flatten([i \in 1..(t - 1) |->
                        IF first_token(tk[i]) = kw THEN Tail(tk[i]) ELSE <<>>])
        finals == args(K_finalstates)
    IN  IF \E i \in 1..(t - 1) : first_token(tk[i]) = K_initstate /\ Len(tk[i]) < 2
        THEN Panic
        ELSE [ok            |-> TRUE,
              states        |-> args(K_states),
              syms          |-> args(K_syms),
              final_states  |-> {finals[i] : i \in 1..Len(finals)},
              initial_state |-> Flatten([i \in 1..(t - 1) |->
                                   IF first_token(tk[i]) = K_initstate
                                   THEN tk[i][2] ELSE <<>>]),
              table         |-> trim_end(Flatten([i \in 1..(Len(ls) - t) |->
                                   strip_comment(ls[t + i]) \o NL]))]

table_line(tk) ==
    IF \E i \in 1..Len(tk) : first_token(tk[i]) = K_table
    THEN CHOOSE i \in 1..Len(tk) :
             first_token(tk[i]) = K_table
             /\ \A j \in 1..(i - 1) : first_token(tk[j]) # K_table
    ELSE Len(tk) + 1

tokenise(ls) == [i \in 1..Len(ls) |-> split_whitespace(strip_comment(ls[i]))]

extract_tokenised(ls, tk) == extract_lines(ls, tk, table_line(tk))

extract_tokens(text) == extract_tokenised(lines(text), tokenise(lines(text)))

(***************************************************************************)
(* Direction::from                                                         *)
(***************************************************************************)
\* A mutation of Direction_from: the token is compared as it is written.
direction_as_written(s) ==
    IF s \in {<<"l">>, <<"<">>, <<"l","e","f","t">>} THEN "Left"
    ELSE IF s \in {<<"r">>, <<">">>, <<"r","i","g","h","t">>} THEN "Right"
    ELSE "Stay"

Direction_from(s) ==
    LET l == to_ascii_lowercase(s)
    IN  IF l \in {<<"l">>, <<"<">>, <<"l","e","f","t">>} THEN "Left"
        ELSE IF l \in {<<"r">>, <<">">>, <<"r","i","g","h","t">>} THEN "Right"
        ELSE "Stay"

(***************************************************************************)
(* TuringRules::parse_file                                                 *)
(***************************************************************************)

\* The loops that number the declared names: the i-th name (from 1) gets
\* index i, a repeated name keeps the last index.
RECURSIVE index_names(_, _, _, _)
index_names(m, names, i, pre) ==
    IF i > Len(names) THEN m
    ELSE index_names(put(m, pre \o names[i], i), names, i + 1, pre)

\* One comma-separated item s of the selector token tok, so its
\* split_once("-"): a range a-b, the wildcard (when the whole token is `*`),
\* or a single name.
selector_range(so, s, tok, idx, pre) ==
    IF so.some
    THEN IF (pre \o so.s1) \in DOMAIN idx /\ (pre \o so.s2) \in DOMAIN idx
         THEN IF idx[pre \o so.s1] > idx[pre \o so.s2] THEN Panic
              ELSE [ok |-> TRUE, first |-> idx[pre \o so.s1], last |-> idx[pre \o so.s2]]
         ELSE Panic
    ELSE IF tok = WILDCARD
         THEN [ok |-> TRUE, first |-> 0, last |-> Cardinality(DOMAIN idx) - 1]
    ELSE IF (pre \o s) \in DOMAIN idx
         THEN [ok |-> TRUE, first |-> idx[pre \o s], last |-> idx[pre \o s]]
         ELSE Panic

selector_item(s, tok, idx, pre) == selector_range(split_once(s, "-"), s, tok, idx, pre)

\* The indices a selector token expands to, in the order they are pushed.
selector_ids(rs) ==
    IF \E i \in 1..Len(rs) : ~rs[i].ok THEN Panic
    ELSE [ok |-> TRUE,
          ids |-> Flatten([i \in 1..Len(rs) |-> Range(rs[i].first, rs[i].last)])]

selector_items(items, tok, idx, pre) ==
    selector_ids([i \in 1..Len(items) |-> selector_item(items[i], tok, idx, pre)])

selector(tok, idx, pre) == selector_items(split(tok, ","), tok, idx, pre)

\* The next-state and write-symbol fields: None for a token ending in `.`.
target(tok, idx, pre) ==
    IF ends_with(tok, NO_STATE_CHANGE) THEN [ok |-> TRUE, some |-> FALSE, v |-> 0]
    ELSE IF (pre \o tok) \in DOMAIN idx THEN [ok |-> TRUE, some |-> TRUE, v |-> idx[pre \o tok]]
    ELSE Panic

\* A mutation of insert_if_absent: the later row overwrites.
insert_overwrite(tm, key, val) == put(tm, key, val)

\* The table's insert: only when the key has no entry yet.
insert_if_absent(tm, key, val) ==
    IF key \in DOMAIN tm THEN tm ELSE put(tm, key, val)

\* A mutation of row_entry: `.` as next state is taken for HALT.
row_entry_to_halt(state_idx, sym_idx, new_state, write, d) ==
    <<IF new_state.some THEN new_state.v ELSE 0,
      IF write.some THEN write.v ELSE sym_idx,
      d>>

\* The entry a row stores for the pair (state_idx, sym_idx).
row_entry(state_idx, sym_idx, new_state, write, d) ==
    <<IF new_state.some THEN new_state.v ELSE state_idx,
      IF write.some THEN write.v ELSE sym_idx,
      d>>

\* The nested loops over a row's states and symbols.
RECURSIVE insert_pairs(_, _, _, _, _)
insert_pairs(tm, pairs, new_state, write, d) ==
    IF Len(pairs) = 0 THEN tm
    ELSE insert_pairs(insert_if_absent(tm, Head(pairs),
                          row_entry(Head(pairs)[1], Head(pairs)[2], new_state, write, d)),
                      Tail(pairs), new_state, write, d)

\* for state_idx in &states { for sym_idx in &syms { ... } }
pairs_of(states, syms) ==
    Flatten([i \in 1..Len(states) |-> [j \in 1..Len(syms) |-> <<states[i], syms[j]>>]])

insert_row(tm, states, syms, new_state, write, d) ==
    IF ~states.ok \/ ~syms.ok \/ ~new_state.ok \/ ~write.ok THEN Panic
    ELSE [ok |-> TRUE,
          map |-> insert_pairs(tm, pairs_of(states.ids, syms.ids), new_state, write, d)]

\* One non-empty table line, given its tokens.
parse_fields(tm, tokens, state2idx, sym2idx, pre) ==
    IF Len(tokens) # 5 THEN Panic
    ELSE insert_row(tm,
                    selector(tokens[1], state2idx, pre),
                    selector(tokens[2], sym2idx, <<>>),
                    target(tokens[3], state2idx, pre),
                    target(tokens[4], sym2idx, <<>>),
                    Direction_from(tokens[5]))

parse_row(tm, line, state2idx, sym2idx, pre) ==
    parse_fields(tm, split_whitespace(line), state2idx, sym2idx, pre)

\* The loop over the table's lines; r is the table so far, or a panic.
RECURSIVE parse_rows(_, _, _, _, _)
parse_rows(r, ls, state2idx, sym2idx, pre) ==
    IF ~r.ok THEN Panic
    ELSE IF Len(ls) = 0 THEN r
    ELSE IF Len(Head(ls)) = 0 THEN parse_rows(r, Tail(ls), state2idx, sym2idx, pre)
    ELSE parse_rows(parse_row(r.map, Head(ls), state2idx, sym2idx, pre),
                    Tail(ls), state2idx, sym2idx, pre)

\* The Grammar, given the interning tables and the parsed table.
rules_of(ex, pre, state2idx, sym2idx, rows) ==
    IF (pre \o ex.initial_state) \notin DOMAIN state2idx THEN Panic
    ELSE IF \E f \in ex.final_states : (pre \o f) \notin DOMAIN state2idx THEN Panic
    ELSE IF ~rows.ok THEN Panic
    ELSE [ok             |-> TRUE,
          initial_state  |-> state2idx[pre \o ex.initial_state],
          final_states   |-> {state2idx[pre \o f] : f \in ex.final_states},
          idx2sym        |-> [i \in 0..Len(ex.syms) |-> IF i = 0 THEN BLANK ELSE ex.syms[i]],
          sym2idx        |-> sym2idx,
          transition_map |-> rows.map]

parse_indexed(ex, pre, state2idx, sym2idx) ==
    rules_of(ex, pre, state2idx, sym2idx,
             parse_rows([ok |-> TRUE, map |-> <<>>], lines(ex.table),
                        state2idx, sym2idx, pre))

\* The state and symbol interning tables: HALT and the blank at index 0.
state_index(states, pre) == index_names(put(<<>>, pre \o HALT, 0), states, 1, pre)
sym_index(syms) == index_names(put(<<>>, BLANK, 0), syms, 1, <<>>)

parse_tokens(ex, pre) ==
    IF ~ex.ok THEN Panic
    ELSE parse_indexed(ex, pre, state_index(ex.states, pre), sym_index(ex.syms))

parse_file(path, text) ==
    parse_tokens(extract_tokens(text), machine_name_of(path) \o SEP)

(***************************************************************************)
(* TuringMachine: the execution engine.                                    *)
(***************************************************************************)

\* The tape window get_string renders.
width == 80

machine_of(rules) ==
    IF ~rules.ok THEN Panic
    ELSE [ok      |-> TRUE,
          tape    |-> <<>>,
          state   |-> rules.initial_state,
          pointer |-> 0,
          rules   |-> rules,
          done    |-> FALSE]

from_file(filepath, text) == machine_of(parse_file(filepath, text))

\* input: the tokens, last first, go to cells 0, -1, -2, ...
RECURSIVE input_cells(_, _, _, _)
input_cells(tape, rev, i, sym2idx) ==
    IF i > Len(rev) THEN tape
    ELSE input_cells(put(tape, -(i - 1), sym2idx[rev[i]]), rev, i + 1, sym2idx)

\* A mutation of reversed: the tokens in their order.
in_order(v) == v

reversed(v) == [i \in 1..Len(v) |-> v[Len(v) + 1 - i]]

input_tokens(tm, toks) ==
    IF \E i \in 1..Len(toks) : toks[i] \notin DOMAIN tm.rules.sym2idx THEN Panic
    ELSE [tm EXCEPT !.tape = input_cells(tm.tape, reversed(toks), 1, tm.rules.sym2idx)]

input(tm, tape) == input_tokens(tm, split_whitespace(tape))

\* The symbol index at a cell: the stored one, or the blank.
cell(tape, i) == IF i \in DOMAIN tape THEN tape[i] ELSE BLANK_ID

\* get_string: the head marker `v` right-aligned in a field of
\* (pointer + width/2) as usize + 1 columns, then the names of the cells
\* -width/2 .. width/2 - 1.  A negative pointer + width/2 casts to a usize
\* near 2^64: at -1 the + 1 overflows (a panic with overflow checks, a field
\* of 0 columns without them); below -1 the field cannot be allocated.
snapshot_of(tm, pad) ==
    [ok |-> TRUE, pad |-> pad,
     cells |-> [k \in 1..width |-> tm.rules.idx2sym[cell(tm.tape, k - 1 - width \div 2)]],
     verdict |-> ""]

get_string(tm) ==
    IF tm.pointer + width \div 2 >= 0 THEN {snapshot_of(tm, tm.pointer + width \div 2)}
    ELSE IF tm.pointer + width \div 2 = -1 THEN {Panic, snapshot_of(tm, 0)}
    ELSE {Panic}

\* TuringRules::get_move
get_move(rules, st, sym) ==
    IF <<st, sym>> \in DOMAIN rules.transition_map
    THEN [some |-> TRUE, new_state |-> rules.transition_map[<<st, sym>>][1],
          write |-> rules.transition_map[<<st, sym>>][2],
          dir |-> rules.transition_map[<<st, sym>>][3]]
    ELSE [some |-> FALSE, new_state |-> st, write |-> sym, dir |-> "Stay"]

\* A mutation of move_head: Left and Right exchanged.
move_head_swapped(pointer, dir) ==
    IF dir = "Left" THEN pointer + 1 ELSE IF dir = "Right" THEN pointer - 1 ELSE pointer

\* The match on the direction in next.
move_head(pointer, dir) ==
    IF dir = "Left" THEN pointer - 1 ELSE IF dir = "Right" THEN pointer + 1 ELSE pointer

\* A mutation of verdict_of: every halt is accepted.
verdict_always_accepted(tm) == "ACCEPTED"

\* The marker next appends when no move exists.
verdict_of(tm) ==
    IF tm.state \in tm.rules.final_states THEN "ACCEPTED" ELSE "REJECTED"

\* A mutation of yield_of: a snapshot is returned after the terminal one too.
yield_always(tm, snapshot) == [some |-> TRUE, snapshot |-> snapshot]

\* What next returns: the snapshot unless the machine was done already.
yield_of(tm, snapshot) ==
    IF ~tm.done THEN [some |-> TRUE, snapshot |-> snapshot] ELSE [some |-> FALSE]

\* The engine after the move next_op (the engine itself when there is none).
moved(tm, next_op) ==
    IF next_op.some
    THEN [tm EXCEPT !.state = next_op.new_state,
                    !.tape = put(tm.tape, tm.pointer, next_op.write),
                    !.pointer = move_head(tm.pointer, next_op.dir)]
    ELSE tm

next_with(tm, snapshot, next_op) ==
    [tm  |-> IF ~tm.done THEN [moved(tm, next_op) EXCEPT !.done = ~next_op.some]
             ELSE moved(tm, next_op),
     ret |-> yield_of(tm, IF next_op.some THEN snapshot
                          ELSE [snapshot EXCEPT !.verdict = verdict_of(tm)])]

\* Iterator::next after get_string returned `snapshot`: the engine it
\* leaves and the Option it returns.
next(tm, snapshot) ==
    next_with(tm, snapshot, get_move(tm.rules, tm.state, cell(tm.tape, tm.pointer)))

(***************************************************************************)
(* The combinators.                                                        *)
(***************************************************************************)

\* while states.contains(&s) { s = format!("{}::{}", prefix, s) }
RECURSIVE prefix_until_free(_, _, _)
prefix_until_free(states, s, prefix) ==
    IF contains(states, s) THEN prefix_until_free(states, prefix \o SEP \o s, prefix)
    ELSE s

\* for sym in m2_syms { if !syms.contains(&sym) { syms.push(sym) } }
RECURSIVE union_syms(_, _)
union_syms(syms, m2_syms) ==
    IF Len(m2_syms) = 0 THEN syms
    ELSE union_syms(IF contains(syms, Head(m2_syms)) THEN syms
                    ELSE Append(syms, Head(m2_syms)), Tail(m2_syms))

\* chain's loop over m2_states: each state is prefixed until it is free,
\* every occurrence of its old name in m2_table is replaced by the new one.
RECURSIVE chain_merge(_, _, _, _)
chain_merge(states, m2_states, m2_table, m2_prefix) ==
    IF Len(m2_states) = 0 THEN [states |-> states, table |-> m2_table]
    ELSE LET state == Head(m2_states)
             s == prefix_until_free(states, state, m2_prefix)
         IN  chain_merge(Append(states, s), Tail(m2_states),
                         replace(m2_table, state, s), m2_prefix)

\* The final states as chain writes them: a name ending in HALT becomes
\* HALT, every other name is written as it was declared.
chain_finals(m2_final) ==
    [i \in 1..Len(m2_final) |->
        IF ends_with(m2_final[i], HALT) THEN HALT ELSE m2_final[i]]

\* The write! calls of chain.
chain_write(states, syms, m1_init, m2_final, m1_table, m2_table) ==
    K_states \o SP \o join(states, SP) \o NL
    \o K_syms \o SP \o join(syms, SP) \o NL
    \o K_initstate \o SP \o m1_init \o NL
    \o K_finalstates \o SP \o join(m2_final, SP) \o NL
    \o K_table \o NL \o m1_table \o NL \o m2_table

chain_merged(e1, e2, m2_init, merged, m2_final) ==
    chain_write(merged.states, union_syms(e1.syms, e2.syms), e1.initial_state,
                chain_finals(m2_final), replace(e1.table, HALT, m2_init), merged.table)

chain_tokens(e1, e2, m2_prefix, m2_final) ==
    IF ~e1.ok \/ ~e2.ok THEN Panic
    ELSE [ok |-> TRUE,
          text |-> chain_merged(e1, e2,
                       prefix_until_free(e1.states, e2.initial_state, m2_prefix),
                       chain_merge(e1.states, e2.states, e2.table, m2_prefix),
                       m2_final)]

\* chain: the text written to outpath.  m2_final is the iteration order of
\* the HashSet of the second machine's final states.
chain(filepath2, text1, text2, m2_final) ==
    chain_tokens(extract_tokens(text1), extract_tokens(text2),
                 machine_name_of(filepath2), m2_final)

\* write_to_file
write_to_file(states, syms, init_state, table) ==
    K_states \o SP \o join(states, SP) \o NL
    \o K_syms \o SP \o join(syms, SP) \o NL
    \o K_initstate \o SP \o init_state \o NL
    \o K_finalstates \o SP \o HALT \o NL
    \o K_table \o NL \o table

\* merge_tokens' while loop: s and, when it is the initial state, init_state
\* are prefixed until s is free.
RECURSIVE merge_rename(_, _, _, _)
merge_rename(states, s, init_state, prefix) ==
    IF contains(states, s)
    THEN merge_rename(states, prefix \o SEP \o s,
                      IF s = init_state THEN prefix \o SEP \o init_state ELSE init_state,
                      prefix)
    ELSE [s |-> s, init_state |-> init_state]

\* The three replacements of merge_tokens: the old name before a space, a
\* comma and a hyphen.
merge_replace(table, state, s) ==
    replace(replace(replace(table, state \o <<" ">>, s \o <<" ">>),
                    state \o <<",">>, s \o <<",">>),
            state \o <<"-">>, s \o <<"-">>)

\* merge_tokens' loop over the states of m2; r is the renaming of the
\* state at the head of m2_states.
RECURSIVE merge_states(_, _, _, _, _)
merge_one(states, m2_states, table, r, prefix) ==
    merge_states(Append(states, r.s), Tail(m2_states),
                 merge_replace(table, Head(m2_states), r.s), r.init_state, prefix)

merge_states(states, m2_states, table, init_state, prefix) ==
    IF Len(m2_states) = 0
    THEN [states |-> states, table |-> table, init_state |-> init_state]
    ELSE merge_one(states, m2_states, table,
                   merge_rename(states, Head(m2_states), init_state, prefix), prefix)

\* merge_tokens: the accumulators after the merge, the renamed table and
\* the renamed initial state of m2.
merge_tokens(states, syms, m2, prefix) ==
    [merged |-> merge_states(states, m2.states, m2.table, m2.initial_state, prefix),
     syms |-> union_syms(syms, m2.syms)]

\* branch's loop over the machines; m is the merge of the machine at the
\* head of paths.
RECURSIVE branch_merge(_, _, _, _, _, _)
branch_push(out_table, init_states, paths, texts, m) ==
    branch_merge(m.merged.states, m.syms, out_table \o NL \o m.merged.table,
                 Append(init_states, m.merged.init_state), Tail(paths), Tail(texts))

branch_machine(out_states, out_syms, out_table, init_states, paths, texts, machine) ==
    IF ~machine.ok THEN Panic
    ELSE branch_push(out_table, init_states, paths, texts,
                     merge_tokens(out_states, out_syms, machine,
                                  machine_name_of(Head(paths))))

branch_merge(out_states, out_syms, out_table, init_states, paths, texts) ==
    IF Len(paths) = 0
    THEN [ok |-> TRUE, states |-> out_states, syms |-> out_syms,
          table |-> out_table, init_states |-> init_states]
    ELSE branch_machine(out_states, out_syms, out_table, init_states, paths, texts,
                        extract_tokens(Head(texts)))

\* The dispatch rows, one per (symbol, machine) pair of the zip.
RECURSIVE branch_rows(_, _)
branch_rows(syms, init_states) ==
    IF Len(syms) = 0 \/ Len(init_states) = 0 THEN <<>>
    ELSE BRANCH \o SP \o Head(syms) \o SP \o Head(init_states) \o SP
         \o NO_STATE_CHANGE \o SP \o <<"R">> \o NL
         \o branch_rows(Tail(syms), Tail(init_states))

branch_write(e, syms, m) ==
    IF ~m.ok THEN Panic
    ELSE [ok |-> TRUE,
          text |-> write_to_file(m.states, m.syms, e.initial_state,
                       m.table \o branch_rows(syms, m.init_states))]

branch_tokens(e, syms, paths, texts) ==
    IF ~e.ok THEN Panic
    ELSE branch_write(e, syms,
                      branch_merge(Append(e.states, BRANCH), e.syms,
                                   replace(e.table, HALT, BRANCH), <<>>, paths, texts))

\* branch: the text written to outpath.
branch(entry, syms, paths, texts) ==
    branch_tokens(extract_tokens(entry), syms, paths, texts)

loop_tokens(e, loop_syms) ==
    IF ~e.ok THEN Panic
    ELSE [ok |-> TRUE,
          text |-> write_to_file(Append(e.states, CHECK), e.syms, e.initial_state,
                       replace(e.table, HALT, CHECK)
                       \o NL \o CHECK \o SP \o join(loop_syms, <<",">>) \o SP
                          \o e.initial_state \o SP \o NO_STATE_CHANGE \o SP \o <<"N">>
                       \o NL \o CHECK \o SP \o WILDCARD \o SP \o HALT \o SP
                          \o NO_WRITE \o SP \o <<"N">>)]

\* loop_while: the text written to outpath.
loop_while(entry, loop_syms) == loop_tokens(extract_tokens(entry), loop_syms)

(***************************************************************************)
(* The definitions, inputs and paths the model runs the program on.        *)
(***************************************************************************)

\* Bounds of the model.
MaxRows == 2
MaxInput == 2
MaxSteps == 5

q0 == <<"q", "0">>
q1 == <<"q", "1">>
q10 == <<"q", "1", "0">>
sa == <<"a">>
sb == <<"b">>
DOT == <<".">>
dR == <<"R">>
dL == <<"L">>
dN == <<"N">>

\* A table row of five fields, and a definition file's text.
Row(f1, f2, f3, f4, f5) == f1 \o SP \o f2 \o SP \o f3 \o SP \o f4 \o SP \o f5

DefText(d) ==
    K_states \o SP \o join(d.states, SP) \o NL
    \o K_syms \o SP \o join(d.syms, SP) \o NL
    \o K_initstate \o SP \o d.init \o NL
    \o (IF Len(d.finals) = 0 THEN <<>>
        ELSE K_finalstates \o SP \o join(d.finals, SP) \o NL)
    \o K_table \o NL \o join(d.rows, NL)

\* The rows the parsed tables are built from: single names, comma lists,
\* ranges and wildcards that overlap one another, `.` and named targets,
\* and the three directions.
RowSet ==
    { Row(q0, sa, DOT, DOT, dR),
      Row(q0, sa, q1, sb, dL),
      Row(q0, WILDCARD, HALT, DOT, dN),
      Row(WILDCARD, sa, DOT, sb, dR),
      Row(q0 \o <<",">> \o q1, sb, q0, sa, dL),
      Row(q0 \o <<"-">> \o q1, BLANK \o <<"-">> \o sa, q1, DOT, dR),
      Row(q1, WILDCARD, DOT, DOT, dN),
      Row(q1, sb, HALT, sa, <<"l","e","f","t">>) }

Tables == UNION {[1..n -> RowSet] : n \in 0..MaxRows}

\* The final-state declarations tried: none, q0, HALT.
FinalDecls == {<<>>, <<q0>>, <<HALT>>}

Defs ==
    {[states |-> <<q0, q1>>, syms |-> <<sa, sb>>, init |-> q0,
      finals |-> f, rows |-> t] : f \in FinalDecls, t \in Tables}

\* The input strings: the words over {a, b} of at most MaxInput tokens.
Words == UNION {[1..n -> {sa, sb}] : n \in 0..MaxInput}

\* The definitions the combinators are run on.  Entries: a machine that
\* rewrites one symbol and halts (and has no rule for the others), a two-state
\* scanner, a machine with a `*` state selector, and one whose cleanup state
\* is called PREHALT.
PREHALT == <<"P", "R", "E">> \o HALT
sS == <<"s">>
sRS == <<"r", "s">>

Machine(states, syms, init, finals, rows) ==
    [states |-> states, syms |-> syms, init |-> init, finals |-> finals, rows |-> rows]

EntryDefs ==
    { Machine(<<q0>>, <<sa, sb>>, q0, <<>>,
              <<Row(q0, sa, HALT, sb, dN)>>),
      Machine(<<q0, q1>>, <<sa, sb>>, q0, <<>>,
              <<Row(q0, sa, q1, DOT, dR), Row(q1, WILDCARD, HALT, DOT, dN)>>),
      Machine(<<q0>>, <<sa, sb>>, q0, <<>>,
              <<Row(q0, sb, HALT, DOT, dN), Row(WILDCARD, sa, DOT, sb, dN)>>),
      Machine(<<q0, PREHALT>>, <<sa, sb>>, q0, <<>>,
              <<Row(q0, WILDCARD, PREHALT, DOT, dN), Row(PREHALT, WILDCARD, HALT, DOT, dN)>>) }

\* Merged machines: one that shares the name q0 with the entries, one whose
\* states q1 and q10 share a prefix, one with an empty table, one with a
\* `*` state selector, and a one-state machine called s.
MergedDefs ==
    { Machine(<<q0>>, <<sa, sb>>, q0, <<q0>>,
              <<Row(q0, sa, HALT, sb, dR)>>),
      Machine(<<q1, q10>>, <<sa>>, q1, <<HALT>>,
              <<Row(q1, sa, q10, DOT, dR), Row(q10, WILDCARD, HALT, DOT, dN)>>),
      Machine(<<q0>>, <<sa>>, q0, <<>>, <<>>),
      Machine(<<q0>>, <<sa, sb>>, q0, <<HALT, q0>>,
              <<Row(WILDCARD, sb, DOT, sa, dN), Row(q0, sa, HALT, DOT, dN)>>),
      Machine(<<sS>>, <<sa, sb>>, sS, <<>>,
              <<Row(sS, WILDCARD, HALT, DOT, dN)>>) }

\* The last machine of a branch: the one with an empty table, or one that
\* shares the name s with the fifth merged machine.
LastDefs ==
    { Machine(<<q0>>, <<sa>>, q0, <<>>, <<>>),
      Machine(<<sS, sRS>>, <<sa, sb>>, sS, <<>>,
              <<Row(sS, sa, sRS, DOT, dR), Row(sRS, WILDCARD, HALT, DOT, dN)>>) }

\* The symbol lists given to branch and loop_while.
SymLists == {<<sa>>, <<sb>>, <<sa, sb>>}

\* The orders in which a set can be iterated.
Orders(S) ==
    {f \in [1..Cardinality(S) -> S] : \A i, j \in 1..Cardinality(S) : i # j => f[i] # f[j]}

pA == <<"A", ".", "t", "u", "r">>
pB == <<"m", "/", "B", ".", "t", "u", "r">>
pC == <<"C", ".", "t", "u", "r">>
pOut == <<"o", "u", "t", ".", "t", "u", "r">>

(***************************************************************************)
(* The state: the files, the engine of the running `compute`, what its     *)
(* last next() returned, and the history the properties speak about.       *)
(***************************************************************************)
VARIABLES
    fs,       \* path -> text of the definition files
    pc,       \* "start", "built" (from_file returned), "run" (input applied), "panicked"
    tm,       \* the TuringMachine
    loaded,   \* the path given to from_file
    word,     \* the input string given to input
    ret,      \* the Option<String> the last next() returned
    steps,    \* the number of next() calls that returned
    yielded,  \* how many of them returned Some
    marked,   \* how many returned a snapshot with ACCEPTED / REJECTED
    op        \* the combinator call that wrote pOut, if any

vars == <<fs, pc, tm, loaded, word, ret, steps, yielded, marked, op>>

NoMachine == [ok |-> FALSE]
NoRet == [some |-> FALSE]
NoOp == [kind |-> "none"]

InitRest ==
    /\ pc = "start"
    /\ tm = NoMachine
    /\ loaded = <<>>
    /\ word = <<>>
    /\ ret = NoRet
    /\ steps = 0
    /\ yielded = 0
    /\ marked = 0
    /\ op = NoOp

Init ==
    /\ \E d \in Defs : fs = (pA :> DefText(d))
    /\ InitRest

\* TuringMachine::from_file(filepath); m is what it returns.
Built(path, m) ==
    /\ tm' = m
    /\ pc' = IF m.ok THEN "built" ELSE "panicked"
    /\ loaded' = path
    /\ UNCHANGED <<fs, word, ret, steps, yielded, marked, op>>

FromFile(path) ==
    /\ pc = "start"
    /\ path \in DOMAIN fs
    /\ Built(path, from_file(path, fs[path]))

\* .input(tape); m is what it returns.
Fed(w, m) ==
    /\ tm' = (IF m.ok THEN m ELSE tm)
    /\ pc' = IF m.ok THEN "run" ELSE "panicked"
    /\ word' = w
    /\ UNCHANGED <<fs, loaded, ret, steps, yielded, marked, op>>

Input(w) ==
    /\ pc = "built"
    /\ Fed(w, input(tm, w))

\* One call of Iterator::next; snapshot is what get_string returned (the
\* call dies with it when it panicked), r what next computes from it.
Stepped(r) ==
    /\ tm' = r.tm
    /\ ret' = r.ret
    /\ steps' = steps + 1
    /\ yielded' = yielded + (IF r.ret.some THEN 1 ELSE 0)
    /\ marked' = marked + (IF r.ret.some /\ r.ret.snapshot.verdict # "" THEN 1 ELSE 0)
    /\ pc' = pc

StepWithin(bound) ==
    /\ pc = "run"
    /\ steps < bound
    /\ \E snapshot \in get_string(tm) :
          IF ~snapshot.ok
          THEN /\ pc' = "panicked"
               /\ UNCHANGED <<tm, ret, steps, yielded, marked>>
          ELSE Stepped(next(tm, snapshot))
    /\ UNCHANGED <<fs, loaded, word, op>>

Step == StepWithin(MaxSteps)

Compute ==
    \/ \E path \in DOMAIN fs : FromFile(path)
    \/ \E w \in Words : Input(join(w, SP))
    \/ Step

Next == Compute

Spec == Init /\ [][Next]_vars

\* A combinator call of main: r is what it computed, the text it writes to
\* pOut or a panic (then no file is written).
Wrote(call, r) ==
    /\ fs' = (IF r.ok THEN fs @@ (pOut :> r.text) ELSE fs)
    /\ op' = (IF r.ok THEN call ELSE [kind |-> "panicked"])
    /\ UNCHANGED <<pc, tm, loaded, word, ret, steps, yielded, marked>>

CanCompose == pc = "start" /\ op = NoOp

\* chain A B out
Chain ==
    /\ CanCompose
    /\ \E m2_final \in Orders(extract_tokens(fs[pB]).final_states) :
          Wrote([kind |-> "chain"], chain(pB, fs[pA], fs[pB], m2_final))

\* branch A "syms" "B C" out
Branch(syms) ==
    /\ CanCompose
    /\ Wrote([kind |-> "branch", syms |-> syms],
             branch(fs[pA], syms, <<pB, pC>>, <<fs[pB], fs[pC]>>))

\* loop A "syms" out
LoopWhile(loop_syms) ==
    /\ CanCompose
    /\ Wrote([kind |-> "loop", syms |-> loop_syms], loop_while(fs[pA], loop_syms))

InitCompose ==
    /\ \E a \in EntryDefs, b \in MergedDefs, c \in LastDefs :
          fs = (pA :> DefText(a)) @@ (pB :> DefText(b)) @@ (pC :> DefText(c))
    /\ InitRest

NextCompose ==
    \/ Chain
    \/ \E syms \in SymLists : Branch(syms)
    \/ \E loop_syms \in SymLists : LoopWhile(loop_syms)
    \/ Compute

SpecCompose == InitCompose /\ [][NextCompose]_vars

(***************************************************************************)
(* Properties of the parser and the engine.                                *)
(***************************************************************************)

\* The engine exists: from_file returned a machine.
Alive == pc \in {"built", "run"}

\* The tokens of the non-empty lines of a table text, in file order.
RowsOf(ls) ==
    [i \in 1..Len(SelectSeq(ls, LAMBDA l : Len(l) > 0)) |->
        split_whitespace(SelectSeq(ls, LAMBDA l : Len(l) > 0)[i])]

\* The pairs of two sequences of indices.
Pairs(st, sy) == {<<st[i], sy[j]>> : i \in 1..Len(st), j \in 1..Len(sy)}

\* The (state, symbol) pairs the expansion of a row covers.
Covers(row, sidx, yidx, pre) ==
    Pairs(selector(row[1], sidx, pre).ids, selector(row[2], yidx, <<>>).ids)

\* What a row gives for a pair it covers, `.` resolved against the pair.
Given(row, pair, sidx, yidx, pre) ==
    <<IF row[3] = DOT THEN pair[1] ELSE sidx[pre \o row[3]],
      IF row[4] = DOT THEN pair[2] ELSE yidx[row[4]],
      Direction_from(row[5])>>

\* Table T is the first match of the rows: a pair has an entry exactly when
\* a row covers it, and the entry is the one the earliest such row gives.
FirstMatch(T, rows, cov, sidx, yidx, pre) ==
    /\ DOMAIN T = UNION {cov[i] : i \in 1..Len(rows)}
    /\ \A i \in 1..Len(rows) : \A p \in cov[i] :
           (\A j \in 1..(i - 1) : p \notin cov[j])
               => T[p] = Given(rows[i], p, sidx, yidx, pre)

FirstMatchOf(T, rows, sidx, yidx, pre) ==
    FirstMatch(T, rows, [i \in 1..Len(rows) |-> Covers(rows[i], sidx, yidx, pre)],
               sidx, yidx, pre)

FirstMatchIn(T, ex, pre) ==
    FirstMatchOf(T, RowsOf(lines(ex.table)), state_index(ex.states, pre),
                 sym_index(ex.syms), pre)

\* C4: first-match precedence.  In the table parsed from any sequence of
\* rows, a (state, symbol) pair has an entry exactly when some row's
\* expansion covers it, and the entry is the one given by the earliest row
\* that covers it (`.` resolved against the pair): no later row overwrites
\* it.
C4_FirstMatch ==
    pc = "built" =>
        FirstMatchIn(tm.rules.transition_map, extract_tokens(fs[loaded]),
                     machine_name_of(loaded) \o SEP)

\* Rows r1 and r2 overlap on a pair of T and give different entries for it.
Overlap(T, r1, r2, sidx, yidx, pre) ==
    \E p \in Covers(r1, sidx, yidx, pre) \cap Covers(r2, sidx, yidx, pre) :
        /\ Given(r1, p, sidx, yidx, pre) # Given(r2, p, sidx, yidx, pre)
        /\ T[p] = Given(r1, p, sidx, yidx, pre)

OverlapIn(T, rows, ex, pre) ==
    /\ Len(rows) = 2
    /\ Overlap(T, rows[1], rows[2], state_index(ex.states, pre), sym_index(ex.syms), pre)

\* A table of two rows that overlap on a pair with different entries; the
\* first row's entry is the one stored.
C4_Witness ==
    /\ pc = "built"
    /\ OverlapIn(tm.rules.transition_map, RowsOf(lines(extract_tokens(fs[loaded]).table)),
                 extract_tokens(fs[loaded]), machine_name_of(loaded) \o SEP)

\* The head displacement of a direction.
Delta(dir) == IF dir = "Left" THEN -1 ELSE IF dir = "Right" THEN 1 ELSE 0

\* The symbol under the head: blank when the cell is unset.
HeadSym == IF tm.pointer \in DOMAIN tm.tape THEN tm.tape[tm.pointer] ELSE 0

HasEntry == <<tm.state, HeadSym>> \in DOMAIN tm.rules.transition_map
Entry == tm.rules.transition_map[<<tm.state, HeadSym>>]

\* C5: a step of the engine.  It reads the symbol at the head (blank if
\* the cell is unset) and looks up (state, symbol); with an entry it writes
\* the entry's symbol at the head cell, enters the entry's state and moves
\* the head by -1, 0 or +1 as the entry's direction says; without one the
\* machine halts and tape, state and head are unchanged.
C5_Step ==
    [][ (pc = "run" /\ steps' = steps + 1) =>
          IF HasEntry
          THEN /\ tm'.state = Entry[1]
               /\ tm'.tape = [c \in (DOMAIN tm.tape) \cup {tm.pointer} |->
                                 IF c = tm.pointer THEN Entry[2] ELSE tm.tape[c]]
               /\ tm'.pointer = tm.pointer + Delta(Entry[3])
               /\ tm'.done = tm.done
          ELSE /\ tm'.state = tm.state
               /\ tm'.tape = tm.tape
               /\ tm'.pointer = tm.pointer
               /\ tm'.done ]_vars

\* A step that wrote a symbol other than the one read, changed the state
\* and moved the head left.
C5_Witness ==
    /\ pc = "run"
    /\ steps = 1
    /\ tm.pointer = -1
    /\ tm.state # tm.rules.initial_state
    /\ 0 \in DOMAIN tm.tape
    /\ ~tm.done

\* The verdict of the terminal snapshot, "" while there is none.
Verdict == IF ret.some THEN ret.snapshot.verdict ELSE ""

\* The index a declared state name resolves to.
DeclaredIndex(states, name) ==
    IF contains(states, name)
    THEN CHOOSE i \in 1..Len(states) :
             states[i] = name /\ \A j \in (i + 1)..Len(states) : states[j] # name
    ELSE 0

\* The indices of the names the finalstates lines declare.
DeclaredFinals ==
    LET ex == extract_tokens(fs[loaded])
    IN  {DeclaredIndex(ex.states, f) : f \in ex.final_states}

NoFinalsDeclared == extract_tokens(fs[loaded]).final_states = {}

\* The example of C6: the only rule is `q0 a . . R`, the input is "a".
C6_Example ==
    /\ loaded = pA
    /\ extract_tokens(fs[loaded]).table = Row(q0, sa, DOT, DOT, dR)
    /\ word = sa

C6_ExampleRuns ==
    (pc = "run" /\ C6_Example) =>
        /\ steps = 1 => (~tm.done /\ tm.pointer = 1 /\ Verdict = "")
        /\ steps = 2 => /\ tm.done /\ tm.pointer = 1
                        /\ Verdict = IF 1 \in DeclaredFinals THEN "ACCEPTED" ELSE "REJECTED"

\* C6 as stated: the halt is ACCEPTED when the halting state is a declared
\* final state or, when no finalstates are declared, exactly when it is
\* HALT; otherwise REJECTED.
C6_Original ==
    /\ (pc = "run" /\ Verdict # "") =>
           (Verdict = "ACCEPTED" <=>
               IF NoFinalsDeclared THEN tm.state = 0 ELSE tm.state \in DeclaredFinals)
    /\ C6_ExampleRuns

\* C6, amended: the halt is ACCEPTED exactly when the halting state is one
\* of the declared final states, so a definition that declares no
\* finalstates rejects every halt, a halt in HALT included; otherwise it
\* is REJECTED.  The machine whose only rule is `q0 a . . R`, on input "a",
\* makes one transition and halts at the next step, ACCEPTED if q0 is
\* declared final and REJECTED if not.
C6_Verdict ==
    /\ (pc = "run" /\ tm.done) => (Verdict # "" \/ ~ret.some)
    /\ (pc = "run" /\ Verdict # "") =>
           /\ tm.done
           /\ Verdict = IF tm.state \in DeclaredFinals THEN "ACCEPTED" ELSE "REJECTED"
    /\ C6_ExampleRuns

\* A halt in HALT of a definition that declares no finalstates.
C6_Witness ==
    /\ pc = "run"
    /\ NoFinalsDeclared
    /\ tm.state = 0
    /\ Verdict = "REJECTED"

\* C7: the trace.  Every next() up to and including the one that finds no
\* move yields a snapshot; only that last snapshot carries ACCEPTED or
\* REJECTED, so exactly one does once the machine has halted; every later
\* next() yields nothing and leaves tape, state and head unchanged.
C7_Trace ==
    /\ [](pc = "run" =>
            /\ marked <= 1
            /\ ~tm.done => (yielded = steps /\ marked = 0 /\ Verdict = "")
            /\ tm.done => (marked = 1 /\ (ret.some => (Verdict # "" /\ yielded = steps))))
    /\ [][ (pc = "run" /\ tm.done /\ steps' = steps + 1) =>
             (~ret'.some /\ tm' = tm /\ yielded' = yielded /\ marked' = marked) ]_vars

\* A request after the terminal snapshot returned nothing.
C7_Witness ==
    /\ pc = "run"
    /\ tm.done
    /\ ~ret.some
    /\ yielded >= 2
    /\ yielded < steps

(***************************************************************************)
(* The combinators: what chain, branch and loop_while promise of the       *)
(* machine they write, stated on the run of that machine.                  *)
(***************************************************************************)

\* A machine after k calls of next (the snapshots do not matter here).
NoSnapshot == [ok |-> TRUE, pad |-> 0, cells |-> <<>>, verdict |-> ""]

RECURSIVE RunN(_, _)
RunN(m, k) == IF k = 0 THEN m ELSE RunN(next(m, NoSnapshot).tm, k - 1)

\* The machine has a transition for its configuration: it has not halted.
HasMove(m) == get_move(m.rules, m.state, cell(m.tape, m.pointer)).some

SameCells(t1, t2) ==
    \A c \in (DOMAIN t1) \cup (DOMAIN t2) : cell(t1, c) = cell(t2, c)

\* The entry machine A of the composite, run alone on the same input.
Alone == input(from_file(pA, fs[pA]), word)

\* A alone made `steps` transitions without halting.
Running(e) == e.ok /\ \A j \in 0..(steps - 1) : HasMove(RunN(e, j))

\* A alone halts exactly after `steps` transitions, and the composite is
\* then at A's tape and head.
HaltsNow(e) ==
    /\ Running(e)
    /\ ~HasMove(RunN(e, steps))
    /\ SameCells(tm.tape, RunN(e, steps).tape)
    /\ tm.pointer = RunN(e, steps).pointer

Composite(kind) == pc = "run" /\ loaded = pOut /\ op.kind = kind

\* The index, in a composite whose state list has `before` names ahead of
\* this machine's, of this machine's initial state.
InitIn(ex, before) ==
    IF contains(ex.states, ex.initial_state)
    THEN before + DeclaredIndex(ex.states, ex.initial_state)
    ELSE 0

HeadName(m) == m.rules.idx2sym[cell(m.tape, m.pointer)]

ChainRefines(e, a, b_init) ==
    Running(e) =>
        /\ SameCells(tm.tape, a.tape)
        /\ tm.pointer = a.pointer
        /\ ~HasMove(a) => tm.state = b_init

\* C1: chain.  Up to A's halt the chained machine goes through A's tape
\* contents and head positions, and when A halts it is in B's initial state
\* with exactly that tape and head.
C1_Chain ==
    Composite("chain") =>
        ChainRefines(Alone, RunN(Alone, steps),
                     InitIn(extract_tokens(fs[pB]), Len(extract_tokens(fs[pA]).states)))

\* The position of the first occurrence of a name in a list, 0 if absent.
FirstAt(list, name) ==
    IF contains(list, name)
    THEN CHOOSE i \in 1..Len(list) : list[i] = name /\ \A j \in 1..(i - 1) : list[j] # name
    ELSE 0

Dispatches(n, syms, inits) ==
    IF FirstAt(syms, HeadName(tm)) # 0
    THEN /\ HasMove(tm)
         /\ SameCells(n.tape, tm.tape)
         /\ n.pointer = tm.pointer + 1
         /\ n.state = inits[FirstAt(syms, HeadName(tm))]
    ELSE ~HasMove(tm)

BranchInits(e, b, c) ==
    <<InitIn(b, Len(e.states) + 1), InitIn(c, Len(e.states) + 1 + Len(b.states))>>

\* C2: branch, given as many symbols as machines.  When entry halts with
\* s_i under the head, the next step leaves the symbol, moves the head one
\* cell right and enters M_i's initial state; when it halts on a symbol not
\* listed, the branched machine halts.
C2_Branch ==
    (Composite("branch") /\ Len(op.syms) = 2 /\ HaltsNow(Alone)) =>
        Dispatches(next(tm, NoSnapshot).tm, op.syms,
                   BranchInits(extract_tokens(fs[pA]), extract_tokens(fs[pB]),
                               extract_tokens(fs[pC])))

Stays(n) == SameCells(n.tape, tm.tape) /\ n.pointer = tm.pointer

Loops(n, loop_syms, init) ==
    IF contains(loop_syms, HeadName(tm))
    THEN HasMove(tm) /\ Stays(n) /\ n.state = init
    ELSE Stays(n) /\ ~HasMove(n)

\* C3: loop_while.  When entry halts with a head symbol in L the machine
\* re-enters entry's initial state with tape and head unchanged; when it
\* halts with a head symbol not in L the machine halts, tape and head
\* unchanged.
C3_Loop ==
    (Composite("loop") /\ HaltsNow(Alone)) =>
        Loops(next(tm, NoSnapshot).tm, op.syms, InitIn(extract_tokens(fs[pA]), 0))

(***************************************************************************)
(* The combinators: what they promise of the text they write.              *)
(***************************************************************************)

\* The characters that end a state identifier in a table.
Delims == WS \cup {",", "-"}

Renamed(tok, map) == IF tok \in DOMAIN map THEN map[tok] ELSE tok

\* text with every whole token that is a key of map replaced by its value.
RECURSIVE rename_tokens(_, _, _, _, _)
rename_tokens(text, i, cur, out, map) ==
    IF i > Len(text) THEN out \o Renamed(cur, map)
    ELSE IF text[i] \in Delims
         THEN rename_tokens(text, i + 1, <<>>, out \o Renamed(cur, map) \o <<text[i]>>, map)
         ELSE rename_tokens(text, i + 1, Append(cur, text[i]), out, map)

WholeTokens(text, map) == rename_tokens(text, 1, <<>>, <<>>, map)

\* The renaming a merge applied: the machine's declared names to the names
\* the output declares for them, `before` names into its state list.
Renaming(states, out_states, before) ==
    [n \in {states[i] : i \in 1..Len(states)} |-> out_states[before + FirstAt(states, n)]]

TableOf(ex, out, before) ==
    WholeTokens(ex.table, Renaming(ex.states, out.states, before))

\* p occurs in the text t.
HasText(t, p) == \E i \in 0..(Len(t) - Len(p)) : SubSeq(t, i + 1, i + Len(p)) = p

ChainRenamed(a, b, out) ==
    ends_with(fs[pOut], NL \o TableOf(b, out, Len(a.states)))

BranchRenamed(a, b, c, out) ==
    HasText(fs[pOut],
             NL \o TableOf(b, out, Len(a.states) + 1)
             \o NL \o TableOf(c, out, Len(a.states) + 1 + Len(b.states))
             \o BRANCH \o SP)

Written(kind) == pOut \in DOMAIN fs /\ op.kind = kind

\* C8: renaming on a name clash.  In the table of the merged machine every
\* occurrence of a renamed state identifier is rewritten, and only whole
\* tokens (ended by a comma, a hyphen or whitespace) are: nothing that
\* merely shares a substring with the identifier is altered.
C8_Renaming ==
    /\ Written("chain") =>
           ChainRenamed(extract_tokens(fs[pA]), extract_tokens(fs[pB]),
                        extract_tokens(fs[pOut]))
    /\ Written("branch") =>
           BranchRenamed(extract_tokens(fs[pA]), extract_tokens(fs[pB]),
                         extract_tokens(fs[pC]), extract_tokens(fs[pOut]))

\* The state identifiers a row refers to: the names of its state selector
\* (the ends of a range, the items of a list) and its next state.
ItemNames(item) ==
    IF split_once(item, "-").some
    THEN <<split_once(item, "-").s1, split_once(item, "-").s2>>
    ELSE <<item>>

SelectorNames(tok) ==
    IF tok = WILDCARD THEN <<>>
    ELSE Flatten([i \in 1..Len(split(tok, ",")) |-> ItemNames(split(tok, ",")[i])])

FieldNames(toks) ==
    IF Len(toks) < 5 THEN <<>>
    ELSE SelectorNames(toks[1]) \o (IF toks[3] = NO_STATE_CHANGE THEN <<>> ELSE <<toks[3]>>)

RowNames(row) == FieldNames(split_whitespace(row))

\* The references of the row `theirs` of a machine resolve, in the row
\* `ours` the output has for it, to that machine's own states: a name the
\* machine declares at position i is a name the output declares at position
\* before + i.  (The halt marker is left to halt patching.)
Resolves(theirs, ours, states, out_states, before) ==
    /\ Len(theirs) = Len(ours)
    /\ \A k \in 1..Len(theirs) :
           contains(states, theirs[k]) =>
               /\ contains(out_states, ours[k])
               /\ DeclaredIndex(out_states, ours[k]) = before + DeclaredIndex(states, theirs[k])

RowsResolve(rows, out_rows, skip, states, out_states, before) ==
    \A j \in 1..Len(rows) :
        /\ skip + j <= Len(out_rows)
        /\ Resolves(RowNames(rows[j]), RowNames(out_rows[skip + j]),
                    states, out_states, before)

Distinct(names) == \A i, j \in 1..Len(names) : i # j => names[i] # names[j]

Share(a, b) == \E i \in 1..Len(a.states) : contains(b.states, a.states[i])

ChainLinked(a, b, out) ==
    Share(a, b) =>
        /\ Distinct(out.states)
        /\ RowsResolve(lines(a.table), lines(out.table), 0, a.states, out.states, 0)
        /\ RowsResolve(lines(b.table), lines(out.table), Len(lines(a.table)),
                       b.states, out.states, Len(a.states))

BranchLinked(a, b, c, out) ==
    (Share(a, b) \/ Share(a, c) \/ Share(b, c)) =>
        /\ Distinct(out.states)
        /\ RowsResolve(lines(a.table), lines(out.table), 0, a.states, out.states, 0)
        /\ RowsResolve(lines(b.table), lines(out.table), Len(lines(a.table)),
                       b.states, out.states, Len(a.states) + 1)
        /\ RowsResolve(lines(c.table), lines(out.table),
                       Len(lines(a.table)) + Len(lines(b.table)),
                       c.states, out.states, Len(a.states) + 1 + Len(b.states))

\* C9: machines that declare a state of the same name.  The output declares
\* distinct identifiers, and every reference a machine's rows make resolves
\* to that machine's own state, never to another machine's.
C9_NoCrossLink ==
    /\ Written("chain") =>
           ChainLinked(extract_tokens(fs[pA]), extract_tokens(fs[pB]),
                       extract_tokens(fs[pOut]))
    /\ Written("branch") =>
           BranchLinked(extract_tokens(fs[pA]), extract_tokens(fs[pB]),
                        extract_tokens(fs[pC]), extract_tokens(fs[pOut]))

\* The entry's table with the fields that are exactly HALT redirected.
Patched(a, to) == WholeTokens(a.table, HALT :> to)

ChainTarget(a, b) == prefix_until_free(a.states, b.initial_state, machine_name_of(pB))

\* C10: halt patching.  Only the fields of the entry's table that are
\* exactly HALT are redirected to the new target (the second machine's
\* initial state, BRANCH, CHECK); an identifier that merely contains HALT is
\* left as it is.
C10_HaltPatch ==
    /\ Written("chain") =>
           HasText(fs[pOut], K_table \o NL
                   \o Patched(extract_tokens(fs[pA]),
                              ChainTarget(extract_tokens(fs[pA]), extract_tokens(fs[pB])))
                   \o NL)
    /\ Written("branch") =>
           HasText(fs[pOut], K_table \o NL \o Patched(extract_tokens(fs[pA]), BRANCH) \o NL)
    /\ Written("loop") =>
           HasText(fs[pOut], K_table \o NL \o Patched(extract_tokens(fs[pA]), CHECK) \o NL)

\* A final-state name of the second machine under the renaming of the merge
\* (HALT, which no machine declares, stays HALT).
Translated(f, b, out, before) ==
    IF contains(b.states, f) THEN Renaming(b.states, out.states, before)[f] ELSE f

ChainEnds(a, b, out) ==
    /\ out.initial_state = a.initial_state
    /\ out.final_states = {Translated(f, b, out, Len(a.states)) : f \in b.final_states}
    /\ \A f \in out.final_states : ~contains(a.states, f)

\* C11: the ends of a chain.  The output's initial state is A's, and its
\* final states are B's under the renaming the merge applied to B's states:
\* a renamed final state is declared final under its new name, so no state
\* of A is designated.
C11_ChainEnds ==
    Written("chain") =>
        ChainEnds(extract_tokens(fs[pA]), extract_tokens(fs[pB]), extract_tokens(fs[pOut]))

(***************************************************************************)
(* Parsing: the definitions the parser is run on to see what it declares,  *)
(* what it rejects and how it reads the direction field.                   *)
(***************************************************************************)

q9 == <<"q", "9">>
sc == <<"c">>
s1to3 == <<"1", "-", "3">>

\* A definition over q0 q1 / a b with the given rows.
Plain(rows) == Machine(<<q0, q1>>, <<sa, sb>>, q0, <<>>, rows)

\* The direction tokens tried.
DirTokens ==
    { <<"l">>, <<"L">>, <<"l","e","f","t">>, <<"L","e","f","t">>, <<"<">>,
      <<"r">>, <<"R">>, <<"r","i","g","h","t">>, <<"R","I","G","H","T">>, <<">">>,
      <<"n">>, <<"N">>, <<"v">>, <<"s","t","a","y">>, <<"x">> }

DirDefs == {Plain(<<Row(q0, WILDCARD, q1, DOT, d)>>) : d \in DirTokens}

\* Declarations: the two orders of q0 q1 and of a b, a repeated name, and
\* `states` / `syms` lines that name HALT and the blank themselves.
DeclDefs ==
    {Machine(st, sy, q0, <<>>, <<Row(q0, WILDCARD, DOT, DOT, dR)>>) :
        st \in {<<q0, q1>>, <<q1, q0>>, <<q0, q0>>, <<q0, HALT>>, <<HALT, q0>>},
        sy \in {<<sa, sb>>, <<sb, sa>>, <<sa, BLANK>>}}

\* `syms 1-3`, with a row that names no symbol and with one that names 1.
RangeDefs ==
    { Machine(<<q0>>, <<s1to3>>, q0, <<>>, <<Row(q0, WILDCARD, DOT, DOT, dR)>>),
      Machine(<<q0>>, <<sa, s1to3>>, q0, <<>>, <<Row(q0, sa, DOT, DOT, dR)>>),
      Machine(<<q0>>, <<s1to3>>, q0, <<>>, <<Row(q0, <<"1">>, DOT, DOT, dR)>>) }

\* Rows and table lines a definition must not have.
FaultyRows ==
    { Row(q9, sa, DOT, DOT, dR),
      Row(q0 \o <<",">> \o q9, sa, DOT, DOT, dR),
      Row(q0, sc, DOT, DOT, dR),
      Row(q0, sa, q9, DOT, dR),
      Row(q0, sa, DOT, sc, dR),
      Row(q0, sa, q9 \o DOT, DOT, dR),
      Row(q0, sa, DOT, sc \o DOT, dR),
      Row(q1 \o <<"-">> \o q0, sa, DOT, DOT, dR),
      Row(q0, sb \o <<"-">> \o sa, DOT, DOT, dR),
      q0 \o SP \o sa \o SP \o DOT \o SP \o dR,
      Row(q0, sa, DOT, DOT, dR) \o SP \o dR,
      K_syms \o SP \o sc,
      K_states \o SP \o q9,
      K_finalstates \o SP \o q0 }

FaultyDefs ==
    {Plain(<<r>>) : r \in FaultyRows}
    \cup {Plain(<<Row(q1, WILDCARD, DOT, DOT, dN), r>>) : r \in FaultyRows}

\* A definition without an initstate line.
NoInitText ==
    K_states \o SP \o q0 \o NL \o K_syms \o SP \o sa \o NL
    \o K_table \o NL \o Row(q0, sa, DOT, DOT, dR)

ParseTexts ==
    {DefText(d) : d \in DirDefs \cup DeclDefs \cup RangeDefs \cup FaultyDefs}
    \cup {NoInitText}

InitParse ==
    /\ \E t \in ParseTexts : fs = (pA :> t)
    /\ InitRest

SpecParse == InitParse /\ [][Next]_vars

IsRange(S) == S = 0..(Cardinality(S) - 1)

Indices(f) == {f[k] : k \in DOMAIN f}

DenseFrom0(sidx, rules, pre) ==
    /\ IsRange(Indices(sidx))
    /\ IsRange(Indices(rules.sym2idx))
    /\ IsRange(DOMAIN rules.idx2sym)
    /\ sidx[pre \o HALT] = 0
    /\ rules.sym2idx[BLANK] = 0
    /\ rules.idx2sym[0] = BLANK
    /\ \A k \in DOMAIN rules.sym2idx : rules.idx2sym[rules.sym2idx[k]] = k

\* C12: after parsing, the state indices and the symbol indices are the
\* numbers 0..n without a gap, `_` is symbol 0 and HALT is state 0 whatever
\* the `states` and `syms` lines declare, and a (state, symbol) key has one
\* entry.
C12_Indices ==
    pc = "built" =>
        DenseFrom0(state_index(extract_tokens(fs[loaded]).states,
                               machine_name_of(loaded) \o SEP),
                   tm.rules, machine_name_of(loaded) \o SEP)

\* The decimal digits, and the number a digit stands for.
DigitChars == <<"0", "1", "2", "3", "4", "5", "6", "7", "8", "9">>
IsDigit(t) == Len(t) = 1 /\ \E k \in 1..10 : DigitChars[k] = t[1]
DigitValue(t) == (CHOOSE k \in 1..10 : DigitChars[k] = t[1]) - 1

\* A token of the form N-M, N and M digits with N <= M.
IsNumRange(tok) ==
    /\ split_once(tok, "-").some
    /\ IsDigit(split_once(tok, "-").s1)
    /\ IsDigit(split_once(tok, "-").s2)
    /\ DigitValue(split_once(tok, "-").s1) <= DigitValue(split_once(tok, "-").s2)

\* The symbols a `syms` token declares: N, N+1, ..., M for N-M, else itself.
Expanded(tok) ==
    IF IsNumRange(tok)
    THEN [k \in 1..(DigitValue(split_once(tok, "-").s2)
                    - DigitValue(split_once(tok, "-").s1) + 1) |->
             <<DigitChars[DigitValue(split_once(tok, "-").s1) + k]>>]
    ELSE <<tok>>

ExpandedSyms(syms) == Flatten([i \in 1..Len(syms) |-> Expanded(syms[i])])

DeclaresRange(ex) == \E i \in 1..Len(ex.syms) : IsNumRange(ex.syms[i])

\* C13: a `syms` token N-M declares the symbols N, N+1, ..., M, with
\* consecutive indices in that order: after `syms 1-3` the symbols are
\* exactly "1", "2", "3" (and the blank), at indices 1, 2, 3.
C13_SymRange ==
    (pc = "built" /\ DeclaresRange(extract_tokens(fs[loaded]))) =>
        tm.rules.sym2idx = sym_index(ExpandedSyms(extract_tokens(fs[loaded]).syms))

(***************************************************************************)
(* Long runs: machines that walk the head away from cell 0.                *)
(***************************************************************************)

\* The number of next() calls of a long run.
MaxFar == 44

\* A machine that walks left, one that walks left writing a and changing
\* state, and one that walks right.
FarDefs ==
    { Plain(<<Row(q0, WILDCARD, DOT, DOT, dL)>>),
      Plain(<<Row(q0, WILDCARD, q1, sa, dL), Row(q1, WILDCARD, q0, DOT, <<"<">>)>>),
      Plain(<<Row(q0, WILDCARD, DOT, DOT, dR)>>) }

InitFar ==
    /\ \E d \in FarDefs : fs = (pA :> DefText(d))
    /\ InitRest

ComputeFar ==
    \/ \E path \in DOMAIN fs : FromFile(path)
    \/ \E w \in Words : Input(join(w, SP))
    \/ StepWithin(MaxFar)

SpecFar == InitFar /\ [][ComputeFar]_vars

\* C14: no error at step time.  From every configuration a run reaches,
\* however far the head is from cell 0, a call of next produces its
\* snapshot and makes a step or halts; it never fails.
C14_NoStepError == [][pc = "run" => pc' = "run"]_vars

(***************************************************************************)
(* Parse errors.                                                           *)
(***************************************************************************)

Keywords == {K_states, K_syms, K_initstate, K_finalstates, K_table}

\* The position of a name in the declared list, after the name that is
\* always there (HALT, the blank) at 0; -1 for a name that is not declared.
PositionIn(names, reserved, name) ==
    IF contains(names, name) THEN DeclaredIndex(names, name)
    ELSE IF name = reserved THEN 0
    ELSE -1

\* An item of a selector names something undeclared, or is a range whose
\* first index is greater than its last.
BadItem(item, names, reserved) ==
    IF split_once(item, "-").some
    THEN \/ PositionIn(names, reserved, split_once(item, "-").s1) = -1
         \/ PositionIn(names, reserved, split_once(item, "-").s2) = -1
         \/ PositionIn(names, reserved, split_once(item, "-").s1)
              > PositionIn(names, reserved, split_once(item, "-").s2)
    ELSE PositionIn(names, reserved, item) = -1

BadSelector(tok, names, reserved) ==
    /\ tok # WILDCARD
    /\ \E i \in 1..Len(split(tok, ",")) : BadItem(split(tok, ",")[i], names, reserved)

BadTarget(tok, names, reserved) ==
    tok # DOT /\ PositionIn(names, reserved, tok) = -1

\* A table line that is not a well-formed row over the declared names.
BadRow(row, ex) ==
    \/ Len(row) # 5
    \/ row[1] \in Keywords
    \/ BadSelector(row[1], ex.states, HALT)
    \/ BadSelector(row[2], ex.syms, BLANK)
    \/ BadTarget(row[3], ex.states, HALT)
    \/ BadTarget(row[4], ex.syms, BLANK)

FaultyRowsIn(rows, ex) == \E i \in 1..Len(rows) : BadRow(rows[i], ex)

Faulty(ex) ==
    ex.ok => (ex.initial_state = <<>> \/ FaultyRowsIn(RowsOf(lines(ex.table)), ex))

\* C15: parsing aborts, and there is no machine to step, when the
\* definition has a row that names an undeclared state or symbol (in a
\* selector, as next state or as symbol to write), a range whose first
\* index is greater than its last, a row that has not five fields, a
\* declaration line after `table`, or no initstate.
C15_ParseAborts ==
    (loaded # <<>> /\ Faulty(extract_tokens(fs[loaded]))) => ~tm.ok

(***************************************************************************)
(* Construction, directions and rows that change nothing.                  *)
(***************************************************************************)

\* The tape holds the n tokens at cells 1-n .. 0 and nothing else.
RightAligned(toks, n) ==
    /\ DOMAIN tm.tape \subseteq (1 - n)..0
    /\ \A c \in (1 - n)..0 : cell(tm.tape, c) = tm.rules.sym2idx[toks[c + n]]
    /\ \A c \in {-n, 1} : cell(tm.tape, c) = BLANK_ID

\* C16: construction.  For an input of tokens t1..tn the initial tape holds
\* ti at cell i-n (the last token at cell 0), every other cell is blank, the
\* head is at 0 and the state is the initial state of the definition.
C16_Construction ==
    (pc = "run" /\ steps = 0) =>
        /\ RightAligned(split_whitespace(word), Len(split_whitespace(word)))
        /\ tm.pointer = 0
        /\ tm.state = tm.rules.initial_state
        /\ tm.state = InitIn(extract_tokens(fs[loaded]), 0)
        /\ ~tm.done

\* An input of two different tokens has been written.
C16_Witness ==
    /\ pc = "run"
    /\ steps = 0
    /\ Len(split_whitespace(word)) = 2
    /\ DOMAIN tm.tape = {-1, 0}
    /\ tm.tape[-1] # tm.tape[0]

\* The direction a token stands for as the claim lists them, and with the
\* two tokens `<` and `>` the claim leaves out.
DirAsStated(tok) ==
    IF to_ascii_lowercase(tok) \in {<<"l">>, <<"l","e","f","t">>} THEN "Left"
    ELSE IF to_ascii_lowercase(tok) \in {<<"r">>, <<"r","i","g","h","t">>} THEN "Right"
    ELSE "Stay"

DirWithArrows(tok) ==
    IF to_ascii_lowercase(tok) \in {<<"l">>, <<"<">>, <<"l","e","f","t">>} THEN "Left"
    ELSE IF to_ascii_lowercase(tok) \in {<<"r">>, <<">">>, <<"r","i","g","h","t">>} THEN "Right"
    ELSE "Stay"

\* Every entry of T has the direction Dir gives for the direction field of
\* the row the entry comes from (the earliest row that covers its pair).
DirsOf(T, rows, cov, Dir(_)) ==
    \A i \in 1..Len(rows) : \A p \in cov[i] :
        (\A j \in 1..(i - 1) : p \notin cov[j]) => T[p][3] = Dir(rows[i][5])

DirsOfRows(T, rows, sidx, yidx, pre, Dir(_)) ==
    DirsOf(T, rows, [i \in 1..Len(rows) |-> Covers(rows[i], sidx, yidx, pre)], Dir)

DirsIn(T, ex, pre, Dir(_)) ==
    DirsOfRows(T, RowsOf(lines(ex.table)), state_index(ex.states, pre),
               sym_index(ex.syms), pre, Dir)

\* C17 as stated: compared without regard to case, `l` and `left` mean
\* Left, `r` and `right` mean Right, every other token means Stay.
C17_Original ==
    pc = "built" =>
        DirsIn(tm.rules.transition_map, extract_tokens(fs[loaded]),
               machine_name_of(loaded) \o SEP, DirAsStated)

\* C17, amended: compared without regard to case, `l`, `left` and `<` mean
\* Left, `r`, `right` and `>` mean Right, every other token means Stay.
C17_Direction ==
    pc = "built" =>
        DirsIn(tm.rules.transition_map, extract_tokens(fs[loaded]),
               machine_name_of(loaded) \o SEP, DirWithArrows)

\* A row whose direction is written RIGHT was parsed, and moves right.
C17_Witness ==
    /\ pc = "built"
    /\ HasText(fs[loaded], <<"R", "I", "G", "H", "T">>)
    /\ <<1, 1>> \in DOMAIN tm.rules.transition_map
    /\ tm.rules.transition_map[<<1, 1>>][3] = "Right"

\* A row with `.` as next state, `.` as symbol to write and direction N.
ChangesNothing(row) ==
    row[3] = DOT /\ row[4] = DOT /\ to_ascii_lowercase(row[5]) = <<"n">>

\* The pair p is covered by a row that changes nothing and by no row before
\* it.
IdleAt(p, rows, cov) ==
    \E i \in 1..Len(rows) :
        /\ p \in cov[i]
        /\ \A j \in 1..(i - 1) : p \notin cov[j]
        /\ ChangesNothing(rows[i])

IdleRows(p, rows, sidx, yidx, pre) ==
    IdleAt(p, rows, [i \in 1..Len(rows) |-> Covers(rows[i], sidx, yidx, pre)])

IdleIn(p, ex, pre) ==
    IdleRows(p, RowsOf(lines(ex.table)), state_index(ex.states, pre),
             sym_index(ex.syms), pre)

\* The machine is about to take a step at a pair whose row changes nothing.
Idle ==
    /\ pc = "run"
    /\ HasEntry
    /\ IdleIn(<<tm.state, HeadSym>>, extract_tokens(fs[loaded]),
              machine_name_of(loaded) \o SEP)

\* C18: a row `. . N`.  A step from a pair that the row covers and no
\* earlier row covers leaves the tape contents, the state and the head
\* where they are, each time it is taken.
C18_NoOp ==
    [][ (Idle /\ steps' = steps + 1) =>
          /\ SameCells(tm'.tape, tm.tape)
          /\ tm'.state = tm.state
          /\ tm'.pointer = tm.pointer
          /\ ~tm'.done ]_vars

\* The third step in a row at such a pair, away from the initial state and
\* from cell 0.
C18_Witness ==
    /\ Idle
    /\ steps = 4
    /\ tm.state # tm.rules.initial_state
    /\ tm.pointer # 0
    /\ ~tm.done

(***************************************************************************)
(* The components of a composed machine.                                   *)
(***************************************************************************)

\* n times the same component label.
Block(label, n) == [i \in 1..n |-> label]

RowCount(ex) == Len(RowsOf(lines(ex.table)))

\* The component of each state index from 1 on, and of each row, of the
\* outputs: 1 is the entry, 2 and 3 the merged machines, 0 the dispatch or
\* check state and its rows.
ChainStates(a, b) == Block(1, Len(a.states)) \o Block(2, Len(b.states))
ChainRows(a, b) == Block(1, RowCount(a)) \o Block(2, RowCount(b))

BranchStates(a, b, c) ==
    Block(1, Len(a.states)) \o <<0>> \o Block(2, Len(b.states)) \o Block(3, Len(c.states))
BranchRowsOf(a, b, c, out) ==
    Block(1, RowCount(a)) \o Block(2, RowCount(b)) \o Block(3, RowCount(c))
    \o Block(0, RowCount(out) - RowCount(a) - RowCount(b) - RowCount(c))

LoopStates(a) == Block(1, Len(a.states)) \o <<0>>
LoopRows(a) == Block(1, RowCount(a)) \o Block(0, 2)

\* Every pair of a component's state gets its entry from a row of that
\* component: the earliest row that covers the pair is one of its own.
OwnRows(rows, cov, of_state, of_row) ==
    /\ Len(of_row) = Len(rows)
    /\ \A i \in 1..Len(rows) : \A p \in cov[i] :
           (p[1] # 0 /\ \A j \in 1..(i - 1) : p \notin cov[j])
               => of_state[p[1]] = of_row[i]

OwnRowsOf(rows, sidx, yidx, pre, of_state, of_row) ==
    OwnRows(rows, [i \in 1..Len(rows) |-> Covers(rows[i], sidx, yidx, pre)],
            of_state, of_row)

Isolated(out, pre, of_state, of_row) ==
    OwnRowsOf(RowsOf(lines(out.table)), state_index(out.states, pre),
              sym_index(out.syms), pre, of_state, of_row)

Parsed(kind) == pc = "built" /\ loaded = pOut /\ op.kind = kind

IsolatedChain(a, b, out) ==
    Isolated(out, machine_name_of(pOut) \o SEP, ChainStates(a, b), ChainRows(a, b))

IsolatedBranch(a, b, c, out) ==
    Isolated(out, machine_name_of(pOut) \o SEP, BranchStates(a, b, c),
             BranchRowsOf(a, b, c, out))

IsolatedLoop(a, out) ==
    Isolated(out, machine_name_of(pOut) \o SEP, LoopStates(a), LoopRows(a))

\* C19: the components of a composed machine are isolated.  In the table
\* parsed from the output of chain, branch or loop_while every transition of
\* a state of a component (the entry, a merged machine, the dispatch or
\* check state) comes from a row of that component; no row, a row with a
\* `*` state selector included, defines or shadows a transition of a state
\* of another component.
C19_Isolation ==
    /\ Parsed("chain") =>
           IsolatedChain(extract_tokens(fs[pA]), extract_tokens(fs[pB]),
                         extract_tokens(fs[pOut]))
    /\ Parsed("branch") =>
           IsolatedBranch(extract_tokens(fs[pA]), extract_tokens(fs[pB]),
                          extract_tokens(fs[pC]), extract_tokens(fs[pOut]))
    /\ Parsed("loop") =>
           IsolatedLoop(extract_tokens(fs[pA]), extract_tokens(fs[pOut]))

(***************************************************************************)
(* The halting state.                                                      *)
(***************************************************************************)

\* The table has no entry for state 0.
NoHaltEntry == \A key \in DOMAIN tm.rules.transition_map : key[1] # 0

\* C20: HALT halts.  No parsed table has a transition for state HALT
\* (index 0) on any symbol, so a machine in HALT halts at its next step,
\* and writes and moves nothing.
C20_HaltHalts ==
    /\ [](Alive => NoHaltEntry)
    /\ [][ (pc = "run" /\ tm.state = 0 /\ steps' = steps + 1) =>
             tm' = [tm EXCEPT !.done = TRUE] ]_vars

(***************************************************************************)
(* The text the combinators write.                                         *)
(***************************************************************************)

\* The definition at path parses.
Parses(path) == parse_file(path, fs[path]).ok

Declared(syms, ex) == \A i \in 1..Len(syms) : contains(ex.syms, syms[i])

\* C21: the output of a combinator parses.  When the source definitions
\* parse (for branch, with as many symbols as machines; for loop_while,
\* with a non-empty list of declared loop symbols), the text chain, branch
\* and loop_while write is a definition that parses: each row has five
\* fields and names only states and symbols the output declares.
C21_OutputParses ==
    /\ (Written("chain") /\ Parses(pA) /\ Parses(pB)) => Parses(pOut)
    /\ (Written("branch") /\ Len(op.syms) = 2
           /\ Parses(pA) /\ Parses(pB) /\ Parses(pC)) => Parses(pOut)
    /\ (Written("loop") /\ Len(op.syms) > 0
           /\ Declared(op.syms, extract_tokens(fs[pA])) /\ Parses(pA)) => Parses(pOut)

=============================================================================
